---- MODULE Spec2Model ----
(***************************************************************************)
(* A model of the Mandelbrot explorer (mandelbrot-explorer.js) and of its  *)
(* render worker (mandelbrot-worker.js, listed in README.md).              *)
(*                                                                         *)
(* Floating point values are modelled exactly where the program's logic    *)
(* depends on them and symbolically elsewhere:                             *)
(*   - zoom is 0.5 * 1.1^in * 0.9^out * mul, kept as the record            *)
(*     [in, out, mul]; its base-10 logarithm is kept in units of 1/LogUnit *)
(*     of a decade (LogZoom), which is what the iteration budget and the   *)
(*     GPU precision ceiling read;                                         *)
(*   - centerX (centerY) is -0.5 (0) plus a sum of terms                   *)
(*     c / (2 * zoom * dimension / 4), kept as the function that maps the  *)
(*     key <<in, out, dimension>> to the integer c (half pixels);          *)
(*   - a colour byte computed by the worker for a pixel is a tag that      *)
(*     identifies the pixel and the channel (PixelByte).                   *)
(***************************************************************************)
EXTENDS Integers, Sequences, FiniteSets, TLC

VARIABLES
    gl,             \* this.gl and this.program: what the constructor obtained
    useWebGL,       \* this.useWebGL
    numWorkers,     \* this.numWorkers
    maxIterations,  \* this.maxIterations (performance tier ceiling)
    canvasWidth,    \* this.canvas.width
    canvasHeight,   \* this.canvas.height
    centerX,        \* this.centerX
    centerY,        \* this.centerY
    zoom,           \* this.zoom
    colorScheme,    \* this.colorScheme
    smoothing,      \* this.smoothing
    antialiasing,   \* this.antialiasing
    isDragging,     \* this.isDragging
    lastMouseX,     \* this.lastMouseX
    lastMouseY,     \* this.lastMouseY
    isRendering,    \* this.isRendering
    workers,        \* this.workers: per worker, the messages it has still to deliver
    frame,          \* the suspended renderCPU call: its locals and its promises
    canvas,         \* what the canvas shows (and whether its bands arrived in order)
    loading,        \* the loading overlay and its text
    ui,             \* what updateUI wrote last
    lastPath,       \* the branch the last render() call took
    initTimer,      \* the setTimeout(render, 100) of init() is still pending
    inputs,         \* number of user input events handled so far
    probe           \* argument and result of a pure function under test

vars == <<gl, useWebGL, numWorkers, maxIterations, canvasWidth, canvasHeight,
          centerX, centerY, zoom, colorScheme, smoothing, antialiasing,
          isDragging, lastMouseX, lastMouseY, isRendering, workers, frame,
          canvas, loading, ui, lastPath, initTimer, inputs, probe>>

envVars == <<gl, useWebGL, numWorkers, maxIterations>>
viewVars == <<canvasWidth, canvasHeight, centerX, centerY, zoom,
              colorScheme, smoothing, antialiasing>>
mouseVars == <<isDragging, lastMouseX, lastMouseY>>
renderVars == <<isRendering, workers, frame, canvas, loading, ui, lastPath>>

----------------------------------------------------------------------------
(* Bounds of the model *)

MaxCores == 2       \* navigator.hardwareConcurrency ranges over 1..MaxCores
MaxHeight == 3      \* the canvas height ranges over 1..MaxHeight
MaxWidth == 2       \* the canvas width
MaxInputs == 2      \* user input events per behaviour

----------------------------------------------------------------------------
(* Program constants *)

LogUnit == 100000           \* logarithms are kept in 1/100000 of a decade
LogHalf == -30103           \* log10(0.5), the constructor's zoom
LogZoomIn == 4139           \* log10(1.1), handleWheel's factor for deltaY <= 0
LogZoomOut == -4576         \* log10(0.9), handleWheel's factor for deltaY > 0
LogMaxGPUZoom == 1400000    \* log10(1e14), shouldUseGPU's maxGPUZoom
WorkerZoomScale == 200      \* renderCPU posts zoom: this.zoom * 200
LogWorkerZoomScale == 230103    \* log10(200)
UltraIterations == 2000     \* qualitySettings.ultra.iterations
AdaptiveQuality == TRUE     \* this.adaptiveQuality, never reset
ProgressRows == 10          \* the worker reports progress every 10 rows

Min(a, b) == IF a < b THEN a ELSE b
Max(a, b) == IF a > b THEN a ELSE b

----------------------------------------------------------------------------
(* detectPerformance: the tier ceiling from cores and memory *)

DetectPerformance(cores, memory) ==
    IF cores >= 8 /\ memory >= 8 THEN 8000
    ELSE IF cores >= 6 /\ memory >= 6 THEN 4000
    ELSE IF cores >= 4 /\ memory >= 4 THEN 2000
    ELSE 1000

(* navigator.hardwareConcurrency || 4: 0 stands for an undefined property *)
OrFour(n) == IF n = 0 THEN 4 ELSE n

----------------------------------------------------------------------------
(* The viewport's zoom and its logarithm *)

InitialZoom == [in |-> 0, out |-> 0, mul |-> 1]

LogZoom(z) ==
    LogHalf + z.in * LogZoomIn + z.out * LogZoomOut
        + (IF z.mul = WorkerZoomScale THEN LogWorkerZoomScale ELSE 0)

(* Math.floor(base + Math.max(1, Math.log10(zoom)) * step) *)
FloorBudget(base, step, logZoom) ==
    base + (Max(LogUnit, logZoom) * step) \div LogUnit

(* the budget without the floor of 1 under the zoom factor *)
IterationsWebGLNoFloor(logZoom, ceiling) ==
    Min(ceiling, Max(500, 500 + (Max(0, logZoom) * 500) \div LogUnit))

(* renderWebGL, lines 513-518 *)
IterationsWebGL(logZoom, ceiling) ==
    IF AdaptiveQuality
    THEN Min(ceiling, Max(500, FloorBudget(500, 500, logZoom)))
    ELSE UltraIterations

(* the budget without the clamp at the tier ceiling *)
IterationsCPUUnclamped(logZoom, ceiling) ==
    Max(1000, FloorBudget(1000, 1000, logZoom))

(* renderCPU, lines 551-556 *)
IterationsCPU(logZoom, ceiling) ==
    IF AdaptiveQuality
    THEN Min(ceiling, Max(1000, FloorBudget(1000, 1000, logZoom)))
    ELSE UltraIterations

(* updateUI, lines 767-772 (simpleCPURender, lines 658-663, computes the same) *)
IterationsUI(logZoom, ceiling) ==
    IF AdaptiveQuality
    THEN Min(ceiling, Max(500, FloorBudget(500, 500, logZoom)))
    ELSE UltraIterations

(* the decision taken from the zoom of the frame before the handler ran *)
ShouldUseGPUCached(webgl, z) == webgl /\ LogZoom(zoom) < LogMaxGPUZoom

(* shouldUseGPU *)
ShouldUseGPU(webgl, z) == webgl /\ LogZoom(z) < LogMaxGPUZoom

----------------------------------------------------------------------------
(* The symbolic centre: a finite sum of terms c / (2 * zoom * dimension / 4) *)

NoTerms == [k \in {} |-> 0]

TermKey(z, dimension) == <<z.in, z.out, dimension>>

Coefficient(c, key) == IF key \in DOMAIN c THEN c[key] ELSE 0

(* c + k / (2 * zoom * dimension / 4), in normal form: no zero coefficient *)
AddTerm(c, key, k) ==
    LET new == Coefficient(c, key) + k
    IN  IF new = 0
        THEN [x \in DOMAIN c \ {key} |-> c[x]]
        ELSE [x \in DOMAIN c \cup {key} |-> IF x = key THEN new ELSE c[x]]

(* every coefficient of c multiplied by s *)
Scale(c, s) == [key \in DOMAIN c |-> c[key] * s]

(* sign * (p - dimension / 2) / (zoom * dimension / 4) + center for a sample
   offset of zero, the coefficients counted in 1/WorkerZoomScale of those of
   the centre, so that a zoom multiplied by WorkerZoomScale is exact *)
PixelToComplex(center, z, dimension, p, sign) ==
    AddTerm(Scale(center, WorkerZoomScale), TermKey(z, dimension),
            sign * (2 * p - dimension) * (WorkerZoomScale \div z.mul))

----------------------------------------------------------------------------
(* renderCPU, lines 558-566: the bands of a frame *)

(* Math.floor instead of Math.ceil *)
RowsPerWorkerFloor(height, n) == height \div n

RowsPerWorker(height, n) == (height + n - 1) \div n

RECURSIVE BandsFrom(_, _, _)
BandsFrom(i, height, n) ==
    LET startY == i * RowsPerWorker(height, n)
        endY == Min((i + 1) * RowsPerWorker(height, n), height)
    IN  IF i >= n \/ startY >= height
        THEN << >>
        ELSE <<[index |-> i, startY |-> startY, endY |-> endY]>>
                 \o BandsFrom(i + 1, height, n)

Bands(height, n) == BandsFrom(0, height, n)

----------------------------------------------------------------------------
(* mandelbrot-worker.js *)

(* The byte calculateMandelbrot computes for channel ch of pixel (px, py):
   the evaluator and the colour mapper are pure in the request and the pixel,
   so the byte is kept as a tag of the pixel and the channel (1..254). *)
PixelByte(params, px, py, ch) == 1 + ch + 3 * (px + params.width * py)

(* const idx = (py * width + px) * 4 *)
WorkerIdx(params, px, py) == (py * params.width + px) * 4

(* calculateMandelbrot: a zeroed Uint8ClampedArray(width * height * 4) in
   which the pixels of the band are stored at WorkerIdx; idx is
   WorkerIdx(params, px, py) + ch for the px, py and ch computed from it *)
CalculateMandelbrot(params) ==
    [idx \in 0 .. params.width * params.height * 4 - 1 |->
        LET ch == idx % 4
            px == (idx \div 4) % params.width
            py == (idx \div 4) \div params.width
        IN  IF /\ params.startX <= px /\ px < params.endX
               /\ params.startY <= py /\ py < params.endY
               /\ WorkerIdx(params, px, py) + ch = idx
            THEN (IF ch = 3 THEN 255 ELSE PixelByte(params, px, py, ch))
            ELSE 0]

(* the rows after which the worker posts a progress message *)
ProgressRowsOf(params) ==
    { py \in params.startY .. params.endY - 1 :
        (py - params.startY) % ProgressRows = 0 }

RECURSIVE ProgressMessages(_, _)
ProgressMessages(params, py) ==
    IF py >= params.endY
    THEN << >>
    ELSE (IF py \in ProgressRowsOf(params)
          THEN <<[type |-> "progress",
                  num |-> py - params.startY,
                  den |-> params.endY - params.startY]>>
          ELSE << >>) \o ProgressMessages(params, py + 1)

(* self.onmessage: the messages one 'calculate' task posts, in order *)
WorkerMessages(params) ==
    ProgressMessages(params, params.startY)
        \o <<[type |-> "result",
              imageData |-> CalculateMandelbrot(params),
              startX |-> params.startX, endX |-> params.endX,
              startY |-> params.startY, endY |-> params.endY]>>

----------------------------------------------------------------------------
(* getColor: t is counted in 1/ColorUnit, a channel before Math.floor(255 * .)
   is an exact fraction; the angles of the cosines are counted in 1/1000 of a
   turn (6.28318 is taken for a whole turn) *)

ColorUnit == 100000

(* the sine of a/1000 of a turn, in 1/1000, by Bhaskara's rational
   approximation, which stays within [-1, 1] like the sine *)
SinMilli(a) ==
    LET h == a % 500
        half == (16000 * h * (500 - h)) \div (1250000 - 4 * h * (500 - h))
    IN  IF a % 1000 < 500 THEN half ELSE -half

CosMilli(a) == SinMilli(a + 250)

(* Math.floor((0.5 + 0.5 * Math.cos(6.28318 * a)) * 255) *)
CosChannel(a) == (255 * (1000 + CosMilli(a))) \div 2000

(* the angle t + phase, t in 1/ColorUnit and the phase in 1/1000 *)
Angle(t, phase) == (t * 1000) \div ColorUnit + phase

(* case 1, Fire *)
FireColor(t) ==
    LET u == (t * 3) % ColorUnit
        third == (33 * ColorUnit) \div 100
    IN  IF u < third
        THEN <<(612 * u) \div ColorUnit, 0, 0>>
        ELSE IF u < 2 * third
        THEN LET q == (u - third) * 3
             IN  <<(255 * (4 * ColorUnit + q)) \div (5 * ColorUnit),
                   (204 * q) \div ColorUnit,
                   0>>
        ELSE LET q == (u - 2 * third) * 3
             IN  <<255,
                   (255 * (4 * ColorUnit + q)) \div (5 * ColorUnit),
                   (204 * q) \div ColorUnit>>

(* default, Ultra smooth: four octaves of halving amplitude, over 1.875 *)
SmoothChannel(t, scale, phase) ==
    LET octave(i, freq, amp) ==
            amp * (1000 + CosMilli(freq * (Angle(t * scale, 0) \div 2 + phase + 100 * i)))
        sum == octave(0, 1, 8) + octave(1, 2, 4) + octave(2, 4, 2) + octave(3, 8, 1)
    IN  (255 * sum) \div 30000

GetColor(t0, scheme) ==
    LET t == Max(0, Min(ColorUnit, t0))
    IN  CASE scheme = 0 ->
                <<CosChannel(Angle(t, 0)), CosChannel(Angle(t, 100)),
                  CosChannel(Angle(t, 200))>>
          [] scheme = 1 -> FireColor(t)
          [] scheme = 2 ->
                <<0,
                  (255 * (7 * ColorUnit + 43 * t)) \div (100 * ColorUnit),
                  (255 * (15 * ColorUnit + 65 * t)) \div (100 * ColorUnit)>>
          [] scheme = 3 ->
                <<CosChannel(Angle(3 * t, 0)), CosChannel(Angle(3 * t, 330)),
                  CosChannel(Angle(3 * t, 670))>>
          [] scheme = 4 ->
                <<(255 * t) \div ColorUnit, (255 * t) \div ColorUnit,
                  (255 * t) \div ColorUnit>>
          [] OTHER ->
                <<SmoothChannel(t, 2, 0), SmoothChannel(t, 2, 100),
                  SmoothChannel(t, 3, 200)>>

----------------------------------------------------------------------------
(* calculateMandelbrot, lines 316-361: one sample.  A coordinate is counted
   in quarters (x4 = 4 * x), in which both shortcut tests are exact; the
   iteration is computed for whole coordinates, on which it is exact *)

(* function complexSquare(zr, zi) *)
ComplexSquare(zr, zi) == <<zr * zr - zi * zi, 2 * zr * zi>>

(* q * (q + (x - 0.25)) <= 0.25 * y * y, both sides multiplied by 256 *)
InCardioid(x4, y4) ==
    LET q16 == (x4 - 1) * (x4 - 1) + y4 * y4
    IN  q16 * (q16 + 4 * (x4 - 1)) <= 4 * y4 * y4

(* no point passes the period-2 test *)
NeverInBulb(x4, y4) == FALSE

(* (x + 1) * (x + 1) + y * y <= 0.0625, both sides multiplied by 16 *)
InBulb(x4, y4) == (x4 + 4) * (x4 + 4) + y4 * y4 <= 1

(* the loop with the escaping step counted as well *)
RECURSIVE IterateCountingEscape(_, _, _, _, _, _)
IterateCountingEscape(zr, zi, i, x, y, maxIter) ==
    IF i >= maxIter
    THEN [zr |-> zr, zi |-> zi, iterations |-> i, steps |-> i]
    ELSE LET z == ComplexSquare(zr, zi)
             newZr == z[1] + x
             newZi == z[2] + y
         IN  IF newZr * newZr + newZi * newZi > 256
             THEN [zr |-> newZr, zi |-> newZi, iterations |-> i + 1, steps |-> i + 1]
             ELSE IterateCountingEscape(newZr, newZi, i + 1, x, y, maxIter)

(* for (let i = 0; i < maxIterations; i++): iterations is i on entry of step
   i; steps counts the executions of z := z^2 + c *)
RECURSIVE Iterate(_, _, _, _, _, _)
Iterate(zr, zi, i, x, y, maxIter) ==
    IF i >= maxIter
    THEN [zr |-> zr, zi |-> zi, iterations |-> i, steps |-> i]
    ELSE LET z == ComplexSquare(zr, zi)
             newZr == z[1] + x
             newZi == z[2] + y
         IN  IF newZr * newZr + newZi * newZi > 256
             THEN [zr |-> newZr, zi |-> newZi, iterations |-> i, steps |-> i + 1]
             ELSE Iterate(newZr, newZi, i + 1, x, y, maxIter)

(* one pass of the sample loop: skipped by a shortcut (continue), or iterated
   and coloured when iterations < maxIterations *)
EvaluateSample(x4, y4, maxIter) ==
    IF InCardioid(x4, y4) \/ InBulb(x4, y4)
    THEN [skipped |-> TRUE, colored |-> FALSE,
          zr |-> 0, zi |-> 0, iterations |-> 0, steps |-> 0]
    ELSE LET r == Iterate(0, 0, 0, x4 \div 4, y4 \div 4, maxIter)
         IN  [skipped |-> FALSE, colored |-> r.iterations < maxIter,
              zr |-> r.zr, zi |-> r.zi,
              iterations |-> r.iterations, steps |-> r.steps]

(* a store into a Uint8ClampedArray *)
ClampByte(value) == Max(0, Min(255, value))

(* the four bytes of a pixel of one sample, without smoothing: the total of
   a sample that is skipped or not coloured stays 0 *)
SamplePixel(x4, y4, maxIter, scheme) ==
    LET r == EvaluateSample(x4, y4, maxIter)
        rgb == IF r.colored
               THEN GetColor((r.iterations * ColorUnit) \div maxIter, scheme)
               ELSE <<0, 0, 0>>
    IN  <<ClampByte(rgb[1]), ClampByte(rgb[2]), ClampByte(rgb[3]), 255>>

----------------------------------------------------------------------------
(* renderCPU, lines 607-624: combining the results *)

(* const srcIdx = ((y - startY) * width + x) * 4 *)
SrcIdx(result, width, x, y) == ((y - result.startY) * width + x) * 4

(* const dstIdx = (y * width + x) * 4 *)
DstIdx(width, x, y) == (y * width + x) * 4

(* a read of a typed array outside its length yields undefined, stored as 0 *)
ReadByte(data, idx) == IF idx \in DOMAIN data THEN data[idx] ELSE 0

(* the inner loops over one result; idx is DstIdx(width, x, y) + ch for the
   x, y and ch computed from it *)
CopyResult(image, result, width) ==
    [idx \in DOMAIN image |->
        LET ch == idx % 4
            x == (idx \div 4) % width
            y == (idx \div 4) \div width
        IN  IF /\ result.startY <= y /\ y < result.endY
               /\ DstIdx(width, x, y) + ch = idx
            THEN ReadByte(result.imageData, SrcIdx(result, width, x, y) + ch)
            ELSE image[idx]]

RECURSIVE CopyResults(_, _, _)
CopyResults(image, results, width) ==
    IF results = << >>
    THEN image
    ELSE CopyResults(CopyResult(image, Head(results), width), Tail(results), width)

(* new ImageData(width, height) filled from the results, in array order *)
CombineResults(results, width, height) ==
    CopyResults([idx \in 0 .. width * height * 4 - 1 |-> 0], results, width)

(* how many times the combining loops store into row y *)
RowWrites(results, y) ==
    Cardinality({ k \in 1 .. Len(results) :
                    results[k].startY <= y /\ y < results[k].endY })

----------------------------------------------------------------------------
(* Inputs of the model *)

Cores == 1 .. MaxCores
DeviceMemory == {0, 2, 4, 8}        \* navigator.deviceMemory, 0 when undefined
CanvasSizes == { <<MaxWidth, h>> : h \in 1 .. MaxHeight }
ResizeSizes == { <<MaxWidth, 1>>, <<MaxWidth, MaxHeight>> }
MousePositions == { <<0, 0>>, <<1, 1>> }
Palettes == {0, 1}
WheelDirections == {"in", "out"}

----------------------------------------------------------------------------
(* The state read by render() *)

View ==
    [width |-> canvasWidth, height |-> canvasHeight,
     centerX |-> centerX, centerY |-> centerY, zoom |-> zoom,
     colorScheme |-> colorScheme, smoothing |-> smoothing,
     antialiasing |-> antialiasing]

SetView(v) ==
    /\ canvasWidth' = v.width
    /\ canvasHeight' = v.height
    /\ centerX' = v.centerX
    /\ centerY' = v.centerY
    /\ zoom' = v.zoom
    /\ colorScheme' = v.colorScheme
    /\ smoothing' = v.smoothing
    /\ antialiasing' = v.antialiasing

NoFrame == [active |-> FALSE]
NoCanvas == [backend |-> "none"]

(* gl.clear, then a drawArrays that draws nothing for want of a program *)
ClearedCanvas == [backend |-> "cleared"]

(* updateUI: the mode and the iteration count it displays *)
UIText(v, webgl, ceiling) ==
    [mode |-> IF ShouldUseGPU(webgl, v.zoom) THEN "GPU" ELSE "CPU",
     iterations |-> IterationsUI(LogZoom(v.zoom), ceiling)]

UpdateUI(v) == UIText(v, useWebGL, maxIterations)

(* renderWebGL: the uniforms of the draw call *)
GPUFrame(v, ceiling) ==
    [backend |-> "gpu",
     width |-> v.width, height |-> v.height,
     centerX |-> v.centerX, centerY |-> v.centerY, zoom |-> v.zoom,
     iterations |-> IterationsWebGL(LogZoom(v.zoom), ceiling),
     colorScheme |-> v.colorScheme, smoothing |-> v.smoothing]

(* renderCPU, lines 581-598: the message posted to the worker of a band *)
TaskParams(v, band, iterations) ==
    [startX |-> 0, endX |-> v.width,
     startY |-> band.startY, endY |-> band.endY,
     width |-> v.width, height |-> v.height,
     centerX |-> v.centerX, centerY |-> v.centerY,
     zoom |-> [v.zoom EXCEPT !.mul = @ * WorkerZoomScale],
     maxIterations |-> iterations,
     colorScheme |-> v.colorScheme,
     smoothing |-> v.smoothing,
     antialiasing |-> FALSE]

BandIndexes(bands) == { bands[k].index : k \in 1 .. Len(bands) }

(* renderCPU, lines 547-602: the locals and the promises of the call *)
NewFrame(v, n, ceiling) ==
    LET bands == Bands(v.height, n)
        iterations == IterationsCPU(LogZoom(v.zoom), ceiling)
    IN  [active |-> TRUE,
         width |-> v.width, height |-> v.height,
         iterations |-> iterations,
         bands |-> bands,
         params |-> [i \in BandIndexes(bands) |->
                        TaskParams(v,
                                   bands[CHOOSE k \in 1 .. Len(bands) : bands[k].index = i],
                                   iterations)],
         resolved |-> [i \in BandIndexes(bands) |-> << >>],
         arrival |-> << >>]

(* worker.postMessage for every band: the worker will post its messages *)
PostTasks(ws, fr) ==
    [i \in DOMAIN ws |->
        IF i \in DOMAIN fr.params
        THEN ws[i] \o WorkerMessages(fr.params[i])
        ELSE ws[i]]

(* renderCPU without its guard *)
NeverReturns == FALSE

(* if (this.isRendering) return; *)
RenderCPUReturns == isRendering

(* Promise.all: the values of the promises, in the order of the promises *)
PromiseAll(fr) ==
    LET order == [k \in 1 .. Len(fr.bands) |-> fr.bands[k].index]
        done == SelectSeq(order, LAMBDA i : fr.resolved[i] # << >>)
    IN  [k \in 1 .. Len(done) |-> fr.resolved[done[k]][1]]

(* the continuation runs as soon as one promise is resolved *)
SomeResolved(fr) == \E i \in DOMAIN fr.resolved : fr.resolved[i] # << >>

(* await Promise.all(promises) continues once every promise is resolved *)
AllResolved(fr) == \A i \in DOMAIN fr.resolved : fr.resolved[i] # << >>

(* the results taken as they arrive, the k-th one stored as the k-th band *)
CPUFrameByArrival(fr) ==
    LET results == [k \in 1 .. Len(fr.arrival) |->
                       [fr.resolved[fr.arrival[k]][1] EXCEPT
                          !.startY = fr.bands[k].startY,
                          !.endY = fr.bands[k].endY]]
    IN  [backend |-> "cpu",
         width |-> fr.width, height |-> fr.height,
         params |-> fr.params,
         inOrder |-> fr.arrival = [k \in 1 .. Len(fr.bands) |-> fr.bands[k].index],
         image |-> CombineResults(results, fr.width, fr.height),
         rowWrites |-> [y \in 0 .. fr.height - 1 |-> RowWrites(results, y)]]

(* renderCPU, lines 607-627: what putImageData draws *)
CPUFrame(fr) ==
    LET results == PromiseAll(fr)
    IN  [backend |-> "cpu",
         width |-> fr.width, height |-> fr.height,
         params |-> fr.params,
         inOrder |-> fr.arrival = [k \in 1 .. Len(fr.bands) |-> fr.bands[k].index],
         image |-> CombineResults(results, fr.width, fr.height),
         rowWrites |-> [y \in 0 .. fr.height - 1 |-> RowWrites(results, y)]]

(* Math.floor(((i + e.data.progress) / this.numWorkers) * 100) *)
ProgressPercent(i, msg, n) == (100 * (i * msg.den + msg.num)) \div (msg.den * n)

----------------------------------------------------------------------------
(* render() and its two paths *)

RenderWebGL(v) ==
    /\ canvas' = IF gl = "linked" THEN GPUFrame(v, maxIterations) ELSE ClearedCanvas
    /\ ui' = UpdateUI(v)
    /\ UNCHANGED <<isRendering, workers, frame, loading>>

RenderCPU(v) ==
    IF RenderCPUReturns
    THEN UNCHANGED <<isRendering, workers, frame, canvas, loading, ui>>
    ELSE /\ isRendering' = TRUE
         /\ loading' = [loading EXCEPT !.shown = TRUE]
         /\ frame' = NewFrame(v, numWorkers, maxIterations)
         /\ workers' = PostTasks(workers, NewFrame(v, numWorkers, maxIterations))
         /\ UNCHANGED <<canvas, ui>>

Render(v) ==
    IF ShouldUseGPU(useWebGL, v.zoom)
    THEN lastPath' = "gpu" /\ RenderWebGL(v)
    ELSE lastPath' = "cpu" /\ RenderCPU(v)

----------------------------------------------------------------------------
(* The state after the constructor: init() has called render() once through
   setupCanvas and has armed the timer of the second render() *)

NoProbe == [kind |-> "none"]

(* canvas.getContext('webgl') and createShaderProgram: no context, a context
   with a linked program, or a context whose shaders do not compile or link
   (this.program is null) *)
Contexts == {"none", "linked", "null"}

(* the constructor on a device with the given context, hardwareConcurrency,
   deviceMemory and window size *)
Constructed(context, cores, memory, size) ==
        LET webgl == context # "none"
            v == [width |-> size[1], height |-> size[2],
                  centerX |-> NoTerms, centerY |-> NoTerms, zoom |-> InitialZoom,
                  colorScheme |-> 0, smoothing |-> TRUE, antialiasing |-> FALSE]
            ceiling == DetectPerformance(cores, OrFour(memory))
            gpu == ShouldUseGPU(webgl, v.zoom)
            idle == [i \in 0 .. cores - 1 |-> << >>]
        IN  /\ gl = context
            /\ useWebGL = webgl
            /\ numWorkers = cores
            /\ maxIterations = ceiling
            /\ canvasWidth = v.width
            /\ canvasHeight = v.height
            /\ centerX = v.centerX
            /\ centerY = v.centerY
            /\ zoom = v.zoom
            /\ colorScheme = v.colorScheme
            /\ smoothing = v.smoothing
            /\ antialiasing = v.antialiasing
            /\ isDragging = FALSE
            /\ lastMouseX = 0
            /\ lastMouseY = 0
            /\ isRendering = ~gpu
            /\ frame = IF gpu THEN NoFrame ELSE NewFrame(v, cores, ceiling)
            /\ workers = IF gpu THEN idle
                         ELSE PostTasks(idle, NewFrame(v, cores, ceiling))
            /\ canvas = IF ~gpu THEN NoCanvas
                        ELSE IF context = "linked" THEN GPUFrame(v, ceiling)
                        ELSE ClearedCanvas
            /\ loading = [shown |-> ~gpu, percent |-> 0]
            /\ ui = IF gpu THEN UIText(v, webgl, ceiling)
                    ELSE [mode |-> "", iterations |-> 0]
            /\ lastPath = IF gpu THEN "gpu" ELSE "cpu"
            /\ initTimer = TRUE
            /\ inputs = 0

InitApp ==
    \E context \in Contexts, cores \in Cores, memory \in DeviceMemory,
       size \in CanvasSizes :
        Constructed(context, cores, memory, size)

(* The constructor aborted: with a null program, setupWebGL passes null to
   gl.getUniformLocation, which throws a TypeError in the browsers that
   implement the WebIDL signature (the others report INVALID_VALUE and go on,
   as in InitApp).  useWebGL is already true; nothing after line 18 has run:
   no worker, no canvas size, no listener, no timer. *)
InitAborted ==
    /\ gl = "threw"
    /\ useWebGL = TRUE
    /\ numWorkers = 0
    /\ maxIterations = 0
    /\ canvasWidth = 0
    /\ canvasHeight = 0
    /\ centerX = NoTerms
    /\ centerY = NoTerms
    /\ zoom = InitialZoom
    /\ colorScheme = 0
    /\ smoothing = TRUE
    /\ antialiasing = FALSE
    /\ isDragging = FALSE
    /\ lastMouseX = 0
    /\ lastMouseY = 0
    /\ isRendering = FALSE
    /\ frame = NoFrame
    /\ workers = << >>
    /\ canvas = NoCanvas
    /\ loading = [shown |-> FALSE, percent |-> 0]
    /\ ui = [mode |-> "", iterations |-> 0]
    /\ lastPath = "none"
    /\ initTimer = FALSE
    /\ inputs = 0

Init == (InitApp \/ InitAborted) /\ probe = NoProbe

(* A state deep in the set: the largest number of wheel steps towards the set
   after which the zoom is still below maxGPUZoom *)
DeepWheelSteps == (LogMaxGPUZoom - LogHalf) \div LogZoomIn

(* a frame whose bands have all returned, in the order of dispatch *)
ReturnedFrame(v, n, ceiling) ==
    LET fr == NewFrame(v, n, ceiling)
    IN  [fr EXCEPT
           !.resolved = [i \in DOMAIN fr.params |->
                            <<WorkerMessages(fr.params[i])[Len(WorkerMessages(fr.params[i]))]>>],
           !.arrival = [k \in 1 .. Len(fr.bands) |-> fr.bands[k].index]]

(* The state after DeepWheelSteps wheel steps towards the set with the cursor
   at (1, 1), every frame drawn before the next step: the terms of the centre
   that the steps add at the zooms in between cancel *)
InitDeep ==
    \E webgl \in BOOLEAN, cores \in Cores, memory \in DeviceMemory,
       size \in CanvasSizes :
        LET deep == [InitialZoom EXCEPT !.in = DeepWheelSteps]
            offX == 2 * 1 - size[1]
            offY == 2 * 1 - size[2]
            v == [width |-> size[1], height |-> size[2],
                  centerX |-> AddTerm(AddTerm(NoTerms, TermKey(InitialZoom, size[1]), offX),
                                      TermKey(deep, size[1]), -offX),
                  centerY |-> AddTerm(AddTerm(NoTerms, TermKey(InitialZoom, size[2]), -offY),
                                      TermKey(deep, size[2]), offY),
                  zoom |-> deep,
                  colorScheme |-> 0, smoothing |-> TRUE, antialiasing |-> FALSE]
            ceiling == DetectPerformance(cores, OrFour(memory))
            gpu == ShouldUseGPU(webgl, v.zoom)
            last == ReturnedFrame(v, cores, ceiling)
        IN  /\ gl = (IF webgl THEN "linked" ELSE "none")
            /\ useWebGL = webgl
            /\ numWorkers = cores
            /\ maxIterations = ceiling
            /\ canvasWidth = v.width
            /\ canvasHeight = v.height
            /\ centerX = v.centerX
            /\ centerY = v.centerY
            /\ zoom = v.zoom
            /\ colorScheme = v.colorScheme
            /\ smoothing = v.smoothing
            /\ antialiasing = v.antialiasing
            /\ isDragging = FALSE
            /\ lastMouseX = 0
            /\ lastMouseY = 0
            /\ isRendering = FALSE
            /\ frame = NoFrame
            /\ workers = [i \in 0 .. cores - 1 |-> << >>]
            /\ canvas = IF gpu THEN GPUFrame(v, ceiling) ELSE CPUFrame(last)
            /\ loading = [shown |-> FALSE,
                          percent |-> IF gpu THEN 0
                                      ELSE ProgressPercent(
                                               last.bands[Len(last.bands)].index,
                                               [num |-> 0, den |-> 1], cores)]
            /\ ui = UIText(v, webgl, ceiling)
            /\ lastPath = IF gpu THEN "gpu" ELSE "cpu"
            /\ initTimer = FALSE
            /\ inputs = 0
            /\ probe = NoProbe

----------------------------------------------------------------------------
(* Event handlers of the main thread *)

(* every user input event; the first one is handled after the timer of init()
   has fired (100 ms after the page is constructed) *)
UserEvent ==
    /\ gl # "threw"
    /\ ~initTimer
    /\ inputs < MaxInputs
    /\ inputs' = inputs + 1
    /\ UNCHANGED <<envVars, initTimer>>

UserInput == UserEvent /\ UNCHANGED probe

(* setTimeout(() => this.render(), 100) *)
TimerRender ==
    /\ initTimer
    /\ initTimer' = FALSE
    /\ Render(View)
    /\ UNCHANGED <<envVars, viewVars, mouseVars, inputs, probe>>

(* resizeCanvas *)
Resize(size) ==
    /\ UserInput
    /\ SetView([View EXCEPT !.width = size[1], !.height = size[2]])
    /\ Render([View EXCEPT !.width = size[1], !.height = size[2]])
    /\ UNCHANGED mouseVars

HandleMouseDown(pos) ==
    /\ UserInput
    /\ isDragging' = TRUE
    /\ lastMouseX' = pos[1]
    /\ lastMouseY' = pos[2]
    /\ UNCHANGED <<viewVars, renderVars>>

HandleMouseMove(pos) ==
    /\ isDragging
    /\ UserInput
    /\ LET deltaX == pos[1] - lastMouseX
           deltaY == pos[2] - lastMouseY
           v == [View EXCEPT
                   !.centerX = AddTerm(@, TermKey(zoom, canvasWidth), -2 * deltaX),
                   !.centerY = AddTerm(@, TermKey(zoom, canvasHeight), 2 * deltaY)]
       IN  SetView(v) /\ Render(v)
    /\ lastMouseX' = pos[1]
    /\ lastMouseY' = pos[2]
    /\ UNCHANGED isDragging

HandleMouseUp ==
    /\ isDragging
    /\ UserInput
    /\ isDragging' = FALSE
    /\ UNCHANGED <<lastMouseX, lastMouseY, viewVars, renderVars>>

(* a wheel step that multiplies the zoom by 0 *)
ZoomByZero(z, direction) == [z EXCEPT !.mul = 0]

(* this.zoom *= zoomFactor, zoomFactor being 1.1 or 0.9 *)
ZoomBy(z, direction) ==
    IF direction = "in" THEN [z EXCEPT !.in = @ + 1] ELSE [z EXCEPT !.out = @ + 1]

(* the centre that keeps the complex coordinate under the cursor after a step
   that forgets the offset of the cursor *)
CenterAtCursor(complex, z, dimension, k) == complex

(* this.centerX = complexX - (mouseX - width / 2) / (this.zoom * width / 4),
   this.centerY = complexY + (mouseY - height / 2) / (this.zoom * height / 4) *)
Recenter(complex, z, dimension, k) == AddTerm(complex, TermKey(z, dimension), k)

WheelAt(direction, pos) ==
    /\ LET offX == 2 * pos[1] - canvasWidth
           offY == 2 * pos[2] - canvasHeight
           complexX == AddTerm(centerX, TermKey(zoom, canvasWidth), offX)
           complexY == AddTerm(centerY, TermKey(zoom, canvasHeight), -offY)
           newZoom == ZoomBy(zoom, direction)
           v == [View EXCEPT
                   !.zoom = newZoom,
                   !.centerX = Recenter(complexX, newZoom, canvasWidth, -offX),
                   !.centerY = Recenter(complexY, newZoom, canvasHeight, offY)]
       IN  SetView(v) /\ Render(v)
    /\ UNCHANGED mouseVars

HandleWheel(direction, pos) == UserInput /\ WheelAt(direction, pos)

SetColorScheme(scheme) ==
    /\ UserInput
    /\ SetView([View EXCEPT !.colorScheme = scheme])
    /\ Render([View EXCEPT !.colorScheme = scheme])
    /\ UNCHANGED mouseVars

ToggleSmoothing ==
    /\ UserInput
    /\ SetView([View EXCEPT !.smoothing = ~@])
    /\ Render([View EXCEPT !.smoothing = ~@])
    /\ UNCHANGED mouseVars

ToggleAntialiasing ==
    /\ UserInput
    /\ SetView([View EXCEPT !.antialiasing = ~@])
    /\ Render([View EXCEPT !.antialiasing = ~@])
    /\ UNCHANGED mouseVars

Reset ==
    /\ UserInput
    /\ SetView([View EXCEPT !.centerX = NoTerms, !.centerY = NoTerms,
                            !.zoom = InitialZoom])
    /\ Render([View EXCEPT !.centerX = NoTerms, !.centerY = NoTerms,
                           !.zoom = InitialZoom])
    /\ UNCHANGED mouseVars

----------------------------------------------------------------------------
(* Messages of the workers *)

(* this.ctx: canvas.getContext('2d') is null on a canvas that has given a
   WebGL context (constructor, lines 12-23) *)
HasContext2D == gl = "none"

(* the continuation of renderCPU after the await, lines 607-635; without a 2D
   context this.ctx.putImageData throws and the rest does not run *)
FinishRenderCPU(fr) ==
    IF HasContext2D
    THEN /\ canvas' = CPUFrame(fr)
         /\ loading' = [loading EXCEPT !.shown = FALSE]
         /\ isRendering' = FALSE
         /\ ui' = UpdateUI(View)
         /\ frame' = NoFrame
    ELSE /\ frame' = fr
         /\ UNCHANGED <<canvas, loading, isRendering, ui>>

(* worker.onmessage of worker i, lines 571-579, and the microtasks it starts *)
OnMessage(i) ==
    /\ frame.active
    /\ i \in DOMAIN frame.resolved
    /\ workers[i] # << >>
    /\ workers' = [workers EXCEPT ![i] = Tail(@)]
    /\ LET msg == Head(workers[i])
       IN  IF msg.type = "progress"
           THEN /\ loading' = [loading EXCEPT
                                 !.percent = ProgressPercent(i, msg, numWorkers)]
                /\ UNCHANGED <<isRendering, frame, canvas, ui>>
           ELSE LET fr == [frame EXCEPT
                             !.resolved[i] = IF @ = << >> THEN <<msg>> ELSE @,
                             !.arrival = Append(@, i)]
                IN  IF AllResolved(fr)
                    THEN FinishRenderCPU(fr)
                    ELSE /\ frame' = fr
                         /\ UNCHANGED <<isRendering, canvas, loading, ui>>
    /\ UNCHANGED <<envVars, viewVars, mouseVars, lastPath, initTimer, inputs, probe>>

(* the task of worker i throws or the worker dies: it posts nothing more *)
WorkerFails(i) ==
    /\ workers[i] # << >>
    /\ workers' = [workers EXCEPT ![i] = << >>]
    /\ UNCHANGED <<envVars, viewVars, mouseVars, isRendering, frame, canvas,
                   loading, ui, lastPath, initTimer, inputs, probe>>

----------------------------------------------------------------------------
Events ==
    \/ \E size \in ResizeSizes : Resize(size)
    \/ \E pos \in MousePositions : HandleMouseDown(pos)
    \/ \E pos \in MousePositions : HandleMouseMove(pos)
    \/ HandleMouseUp
    \/ \E direction \in WheelDirections, pos \in MousePositions :
           HandleWheel(direction, pos)
    \/ \E scheme \in Palettes : SetColorScheme(scheme)
    \/ ToggleSmoothing
    \/ ToggleAntialiasing
    \/ Reset
    \/ \E i \in DOMAIN workers : OnMessage(i)
    \/ \E i \in DOMAIN workers : WorkerFails(i)

Next == TimerRender \/ Events

Spec == Init /\ [][Next]_vars

(* the same program, started deep in the set, after the timer *)
SpecDeep == InitDeep /\ [][Events]_vars

----------------------------------------------------------------------------
(* The iteration budget as a pure function of the zoom and of the device *)

ProbeDecades == 16      \* the zooms probed go up to 10^ProbeDecades
ProbeCores == {0, 1, 4, 6, 8}
ProbeLogZooms == { k * (LogUnit \div 4) : k \in -8 .. 4 * ProbeDecades }
                    \cup { LogZoom(InitialZoom) }

InitBudget ==
    /\ InitApp
    /\ gl = "linked"
    /\ numWorkers = 1
    /\ canvasHeight = 1
    /\ \E logZoom \in ProbeLogZooms, cores \in ProbeCores, memory \in DeviceMemory :
           probe = [kind |-> "budget", logZoom |-> logZoom,
                    cores |-> cores, memory |-> memory,
                    ceiling |-> 0, webgl |-> 0, cpu |-> 0, done |-> FALSE]

(* detectPerformance, then the budget of each path for the probed zoom *)
ComputeBudget ==
    /\ probe.kind = "budget"
    /\ ~probe.done
    /\ LET ceiling == DetectPerformance(OrFour(probe.cores), OrFour(probe.memory))
       IN  probe' = [probe EXCEPT
                       !.ceiling = ceiling,
                       !.webgl = IterationsWebGL(probe.logZoom, ceiling),
                       !.cpu = IterationsCPU(probe.logZoom, ceiling),
                       !.done = TRUE]
    /\ UNCHANGED <<envVars, viewVars, mouseVars, renderVars, initTimer, inputs>>

SpecBudget == InitBudget /\ [][ComputeBudget]_vars

----------------------------------------------------------------------------
(* Properties of the frame engine *)

CpuDrawn == canvas.backend = "cpu"

(* the result message a worker posts for a request *)
ResultOf(params) == WorkerMessages(params)[Len(WorkerMessages(params))]

(* the image assembled when the bands return in the order of dispatch *)
InOrderImage(c) ==
    LET order == [k \in 1 .. Len(Bands(c.height, numWorkers)) |->
                     Bands(c.height, numWorkers)[k].index]
    IN  CombineResults([k \in 1 .. Len(order) |-> ResultOf(c.params[order[k]])],
                       c.width, c.height)

(* C1: once a scalar-path frame is drawn, the four bytes of the framebuffer at
   every (y, x) are the bytes the worker of the row's band computed for pixel
   (x, y), alpha 255 included, in every band. *)
C1_FramebufferHoldsComputedPixels ==
    CpuDrawn =>
        \A y \in 0 .. canvas.height - 1, x \in 0 .. canvas.width - 1, ch \in 0 .. 3 :
            \A i \in DOMAIN canvas.params :
                (canvas.params[i].startY <= y /\ y < canvas.params[i].endY) =>
                    canvas.image[(y * canvas.width + x) * 4 + ch]
                        = IF ch = 3 THEN 255
                          ELSE PixelByte(canvas.params[i], x, y, ch)

(* the bands of a frame of the given height for n workers are contiguous from
   row 0, end at the height, and hold between 1 and ceil(height / n) rows *)
BandsPartition(bands, height, n) ==
    LET ceil == CHOOSE c \in 0 .. height : c * n >= height /\ (c - 1) * n < height
    IN  /\ Len(bands) >= 1
        /\ Len(bands) <= n
        /\ bands[1].startY = 0
        /\ bands[Len(bands)].endY = height
        /\ \A k \in 1 .. Len(bands) :
              /\ bands[k].endY - bands[k].startY >= 1
              /\ bands[k].endY - bands[k].startY <= ceil
              /\ bands[k].index = k - 1
              /\ k > 1 => bands[k].startY = bands[k - 1].endY
        /\ \A y \in 0 .. height - 1 :
              Cardinality({ k \in 1 .. Len(bands) :
                              bands[k].startY <= y /\ y < bands[k].endY }) = 1

SweepHeight == 12       \* heights swept by C2 beside the canvas heights
SweepWorkers == 8       \* worker counts swept by C2

(* C2: the bands renderCPU dispatches are contiguous and disjoint, each of 1 to
   ceil(height / numWorkers) rows, their union is [0, height), and exactly one
   task is posted per band, none for an empty band; the same holds of the
   partition of every height and worker count swept (the sweep is evaluated
   in the states before the first user input). *)
C2_BandsPartitionTheRows ==
    /\ frame.active =>
          /\ BandsPartition(frame.bands, frame.height, numWorkers)
          /\ DOMAIN frame.params = BandIndexes(frame.bands)
          /\ \A k \in 1 .. Len(frame.bands) :
                /\ frame.params[frame.bands[k].index].startY = frame.bands[k].startY
                /\ frame.params[frame.bands[k].index].endY = frame.bands[k].endY
          /\ \A i \in DOMAIN workers :
                workers[i] # << >> => i \in BandIndexes(frame.bands)
          /\ \A i \in DOMAIN workers :
                Cardinality({ k \in 1 .. Len(workers[i]) :
                                workers[i][k].type = "result" }) <= 1
    /\ inputs = 0 =>
          \A height \in 1 .. SweepHeight, n \in 1 .. SweepWorkers :
              BandsPartition(Bands(height, n), height, n)

(* C2 witness: a frame in flight with fewer bands than workers *)
C2_Witness ==
    /\ frame.active
    /\ Len(frame.bands) < numWorkers
    /\ \E i \in DOMAIN workers : workers[i] # << >>

(* C3: every step that draws a scalar-path frame draws the framebuffer
   assembled from the bands in the order of dispatch, whatever the order in
   which the results arrived, and writes every destination row exactly once. *)
C3_AssemblyIgnoresArrivalOrder ==
    [][ (canvas' # canvas /\ canvas'.backend = "cpu") =>
            /\ canvas'.image = InOrderImage(canvas')
            /\ \A y \in 0 .. canvas'.height - 1 : canvas'.rowWrites[y] = 1 ]_vars

(* C3 witness: a frame drawn from bands that arrived out of order *)
C3_Witness ==
    /\ CpuDrawn
    /\ ~canvas.inOrder
    /\ Cardinality(DOMAIN canvas.params) >= 2

(* a step that draws a scalar-path frame *)
DrawsCPU ==
    \/ canvas' # canvas /\ canvas'.backend = "cpu"
    \/ frame.active /\ ~frame'.active

(* C4: a scalar-path frame is drawn only in the step that delivers the last
   outstanding result: every other band has returned before, and every row of
   the frame drawn has been assembled. *)
C4_DrawnOnlyAfterAllBands ==
    [][DrawsCPU =>
          /\ frame.active
          /\ \A i \in DOMAIN frame.resolved :
                \/ frame.resolved[i] # << >>
                \/ /\ workers[i] # << >>
                   /\ Head(workers[i]).type = "result"
                   /\ workers'[i] = Tail(workers[i])
          /\ \A y \in 0 .. canvas'.height - 1 : canvas'.rowWrites[y] >= 1
      ]_vars

(* C4 witness: a drawn frame of several bands whose progress messages were
   interleaved with the results *)
C4_Witness ==
    /\ CpuDrawn
    /\ Cardinality(DOMAIN canvas.params) >= 2
    /\ loading.percent > 0
    /\ ~loading.shown


----------------------------------------------------------------------------
(* a step of a handler that ends in render(): every user event but the press
   and the release of the mouse button, and the timer of init() *)
RenderRequested ==
    \/ initTimer' # initTimer
    \/ /\ inputs' # inputs
       /\ isDragging' = isDragging

(* C5: at most one frame of the workers is in flight.  isRendering is true
   exactly while a frame is dispatched and not yet drawn; a render request
   made while it is true posts no task, installs no handler and leaves the
   parameters of the frame in flight as they are; isRendering falls only in
   the step that draws that frame. *)
C5_OneFrameInFlight ==
    [][ /\ isRendering <=> frame.active
        /\ isRendering' <=> frame'.active
        /\ (isRendering /\ RenderRequested) =>
              /\ frame' = frame
              /\ workers' = workers
              /\ isRendering'
        /\ (isRendering /\ ~isRendering') =>
              /\ canvas'.backend = "cpu"
              /\ canvas'.params = frame.params ]_vars

(* a request has been ignored: the frame in flight was asked for a palette
   that is no longer the current one *)
C5_Witness ==
    /\ isRendering
    /\ inputs > 0
    /\ \E i \in DOMAIN frame.params : frame.params[i].colorScheme # colorScheme

(* the view, the size, the palette or the backend is no longer what the
   frame was dispatched for *)
Stale(fr) ==
    \/ ShouldUseGPU(useWebGL, zoom)
    \/ \E i \in DOMAIN fr.params :
          \/ fr.params[i].centerX # centerX
          \/ fr.params[i].centerY # centerY
          \/ fr.params[i].zoom # [zoom EXCEPT !.mul = @ * WorkerZoomScale]
          \/ fr.params[i].width # canvasWidth
          \/ fr.params[i].height # canvasHeight
          \/ fr.params[i].colorScheme # colorScheme

(* C6: when the last band of a frame arrives after the view, the canvas
   size, the palette or the backend has changed, the frame is discarded: the
   canvas keeps what it shows. *)
C6_StaleFrameDiscarded ==
    [][ (frame.active /\ ~frame'.active /\ Stale(frame)) => canvas' = canvas ]_vars

(* a band of the frame in flight has failed: its promise is not resolved and
   its worker has nothing more to post *)
BandFailed ==
    /\ frame.active
    /\ \E i \in DOMAIN frame.resolved :
          /\ frame.resolved[i] = << >>
          /\ workers[i] = << >>

(* C7: a frame one of whose bands has failed does not stay pending:
   isRendering is cleared, so that a later render request is not ignored. *)
C7_FailedFrameReleased ==
    BandFailed => ~isRendering

----------------------------------------------------------------------------
(* The iteration budget (specification SpecBudget) *)

(* b is clamp(floor(base + max(1, log10 zoom) * step), lowerBound, ceiling),
   said without computing the floor: b lies between the bounds, the real
   value is below b + 1 unless b is the ceiling and at least b unless b is
   the lower bound *)
IsClampedFloor(b, base, step, lowerBound, ceiling, logZoom) ==
    LET factor == IF logZoom > LogUnit THEN logZoom ELSE LogUnit
    IN  /\ lowerBound <= b
        /\ b <= ceiling
        /\ b < ceiling => factor * step < (b + 1 - base) * LogUnit
        /\ b > lowerBound => (b - base) * LogUnit <= factor * step

ProbedAtZoomOne ==
    /\ probe.kind = "budget"
    /\ probe.done
    /\ probe.logZoom = 0
    /\ probe.ceiling = 2000

(* C8, as the specification states it: at zoom 1 under the ceiling 2000 the
   budget is the lower bound of the path, 500 accelerated and 1000 software. *)
C8_BudgetAtZoomOneIsLowerBound ==
    ProbedAtZoomOne => probe.webgl = 500 /\ probe.cpu = 1000

(* C8, amended: at zoom 1 under the ceiling 2000 the zoom factor is 1, so the
   budget is base + step: 1000 on the accelerated path and 2000 on the
   software path. *)
C8_BudgetAtZoomOneIsBasePlusStep ==
    ProbedAtZoomOne => probe.webgl = 1000 /\ probe.cpu = 2000

C8_Witness ==
    /\ ProbedAtZoomOne
    /\ probe.webgl # 500
    /\ probe.cpu # 1000

TierCeilings == {1000, 2000, 4000, 8000}

(* C9: for every zoom and every tier ceiling the budget of each path is
   clamp(floor(base + max(1, log10 zoom) * step), lowerBound, ceiling): it
   lies between the lower bound and the ceiling, no larger zoom has a
   smaller budget, and zoom 10^6 under the ceiling 2000 gives 2000. *)
C9_BudgetIsClampedFloor ==
    (probe.kind = "budget" /\ probe.done) =>
        /\ probe.ceiling \in TierCeilings
        /\ IsClampedFloor(probe.webgl, 500, 500, 500, probe.ceiling, probe.logZoom)
        /\ IsClampedFloor(probe.cpu, 1000, 1000, 1000, probe.ceiling, probe.logZoom)
        /\ \A larger \in ProbeLogZooms :
              larger >= probe.logZoom =>
                  /\ IterationsWebGL(larger, probe.ceiling) >= probe.webgl
                  /\ IterationsCPU(larger, probe.ceiling) >= probe.cpu
        /\ (probe.logZoom = 6 * LogUnit /\ probe.ceiling = 2000) =>
              probe.webgl = 2000 /\ probe.cpu = 2000

(* the clamp at the ceiling acts: zoom 10^6 under the ceiling 2000 *)
C9_Witness ==
    /\ probe.kind = "budget"
    /\ probe.done
    /\ probe.logZoom = 6 * LogUnit
    /\ probe.ceiling = 2000
    /\ FloorBudget(1000, 1000, probe.logZoom) > probe.ceiling
    /\ probe.cpu = 2000

----------------------------------------------------------------------------
(* The choice of the backend (specification SpecDeep) *)

(* C10: the path render() took last is the accelerated one exactly when
   WebGL is available and the zoom the handler left is below 10^14; the
   decision follows the zoom of the call, not that of an earlier frame. *)
C10_BackendFollowsCurrentZoom ==
    lastPath = IF useWebGL /\ LogZoom(zoom) < LogMaxGPUZoom THEN "gpu" ELSE "cpu"

(* WebGL is available and the last frame was drawn by it, yet the zoom has
   passed 10^14 and render() has taken the scalar path *)
C10_Witness ==
    /\ useWebGL
    /\ inputs > 0
    /\ LogZoom(zoom) >= LogMaxGPUZoom
    /\ lastPath = "cpu"
    /\ canvas.backend = "gpu"

----------------------------------------------------------------------------
(* The fallback when the accelerated backend cannot be set up *)

(* C11: when the constructor obtains no WebGL context, or a context whose
   shader program does not compile or link, useWebGL is false after
   construction and every render() takes the scalar path. *)
C11_FallsBackToScalar ==
    gl # "linked" => (~useWebGL /\ lastPath = "cpu")

----------------------------------------------------------------------------
(* The coordinate mapping *)

(* calculateMandelbrot: const x = ..., const y = ... with ox = oy = 0 *)
WorkerX(params, px) ==
    PixelToComplex(params.centerX, params.zoom, params.width, px, 1)

WorkerY(params, py) ==
    PixelToComplex(params.centerY, params.zoom, params.height, py, -1)

(* handleWheel: complexX, complexY; simpleCPURender: cX, cY *)
ViewX(v, px) == PixelToComplex(v.centerX, v.zoom, v.width, px, 1)

ViewY(v, py) == PixelToComplex(v.centerY, v.zoom, v.height, py, -1)

(* C12: the coordinate a worker evaluates for the pixel (px, py) of a frame
   is the one the mapping of handleWheel and simpleCPURender gives that pixel
   for the zoom and the centre of the viewport at dispatch. *)
C12_WorkerMapsAsTheViewport ==
    [][ (~isRendering /\ isRendering') =>
            \A i \in DOMAIN frame'.params :
                /\ \A px \in frame'.params[i].startX .. frame'.params[i].endX - 1 :
                      WorkerX(frame'.params[i], px) = ViewX(View', px)
                /\ \A py \in frame'.params[i].startY .. frame'.params[i].endY - 1 :
                      WorkerY(frame'.params[i], py) = ViewY(View', py) ]_vars

----------------------------------------------------------------------------
(* Zooming at the cursor (specification SpecWheel): sequences of wheel steps,
   each recorded with the view it found and the cursor it was given *)

InitWheel == InitApp /\ gl # "null" /\ probe = NoProbe

WheelProbe(direction, pos) ==
    /\ UserEvent
    /\ WheelAt(direction, pos)
    /\ probe' = [kind |-> "wheel", before |-> View,
                 direction |-> direction, pos |-> pos]

WheelTimer == TimerRender

NextWheel ==
    \/ WheelTimer
    \/ \E direction \in WheelDirections, pos \in MousePositions :
           WheelProbe(direction, pos)

SpecWheel == InitWheel /\ [][NextWheel]_vars

(* C13: after every wheel step the mapping gives the pixel under the cursor
   the complex coordinate it gave it before the step, the zoom having taken
   one step of 0.9 or 1.1; this holds after any sequence of wheel steps. *)
C13_CursorKeepsItsCoordinate ==
    probe.kind = "wheel" =>
        /\ zoom = ZoomBy(probe.before.zoom, probe.direction)
        /\ ViewX(View, probe.pos[1]) = ViewX(probe.before, probe.pos[1])
        /\ ViewY(View, probe.pos[2]) = ViewY(probe.before, probe.pos[2])

(* a second wheel step, the other way, with the cursor off the centre of the
   canvas, after which the centre has moved *)
C13_Witness ==
    /\ probe.kind = "wheel"
    /\ zoom.in >= 1
    /\ zoom.out >= 1
    /\ 2 * probe.pos[1] # canvasWidth
    /\ 2 * probe.pos[2] # canvasHeight
    /\ centerX # probe.before.centerX
    /\ centerY # probe.before.centerY

----------------------------------------------------------------------------
(* Antialiasing *)

(* calculateMandelbrot: const samples = antialiasing ? 4 : 1 *)
Samples(params) == IF params.antialiasing THEN 4 ELSE 1

(* C14: a frame dispatched on the scalar path carries the antialiasing state
   of the application, and when that state is on every pixel of the frame is
   evaluated at the four sub-pixel offsets. *)
C14_FrameCarriesAntialiasing ==
    [][ (~isRendering /\ isRendering') =>
            \A i \in DOMAIN frame'.params :
                /\ frame'.params[i].antialiasing = antialiasing'
                /\ antialiasing' => Samples(frame'.params[i]) = 4 ]_vars

----------------------------------------------------------------------------
(* The escape-time evaluator (specification SpecEvaluate) *)

MaxCoordinate == 2      \* the samples probed lie in [-MaxCoordinate, MaxCoordinate]^2
MaxBudget == 4          \* the budgets probed are 1 .. MaxBudget

(* the quarter points a shortcut test accepts, and the whole points *)
SamplePoints ==
    { s \in (-4 * MaxCoordinate .. 4 * MaxCoordinate)
              \X (-4 * MaxCoordinate .. 4 * MaxCoordinate) :
        \/ InCardioid(s[1], s[2])
        \/ InBulb(s[1], s[2])
        \/ s[1] % 4 = 0 /\ s[2] % 4 = 0 }

InitEvaluate ==
    /\ InitApp
    /\ gl = "linked"
    /\ numWorkers = 1
    /\ canvasHeight = 1
    /\ \E s \in SamplePoints, maxIter \in 1 .. MaxBudget, scheme \in Palettes :
           probe = [kind |-> "evaluate", x4 |-> s[1], y4 |-> s[2],
                    maxIterations |-> maxIter, colorScheme |-> scheme,
                    done |-> FALSE]

(* the sample loop and the store of the pixel, for one sample per pixel *)
ComputeSample ==
    /\ probe.kind = "evaluate"
    /\ ~probe.done
    /\ probe' = [kind |-> "evaluate", x4 |-> probe.x4, y4 |-> probe.y4,
                 maxIterations |-> probe.maxIterations,
                 colorScheme |-> probe.colorScheme,
                 done |-> TRUE,
                 result |-> EvaluateSample(probe.x4, probe.y4, probe.maxIterations),
                 pixel |-> SamplePixel(probe.x4, probe.y4, probe.maxIterations,
                                       probe.colorScheme)]
    /\ UNCHANGED <<envVars, viewVars, mouseVars, renderVars, initTimer, inputs>>

SpecEvaluate == InitEvaluate /\ [][ComputeSample]_vars

Evaluated == probe.kind = "evaluate" /\ probe.done

(* C15: for c = (2, 2) and every budget of at least 3 the sample is reported
   escaped with at most 2 in the iteration counter, the loop having stopped
   at the first step that left |z|^2 above 256. *)
C15_FarPointEscapesAtOnce ==
    (Evaluated /\ probe.x4 = 8 /\ probe.y4 = 8 /\ probe.maxIterations >= 3) =>
        /\ ~probe.result.skipped
        /\ probe.result.colored
        /\ probe.result.iterations <= 2
        /\ probe.result.zr * probe.result.zr + probe.result.zi * probe.result.zi > 256

(* (2, 2) evaluated with a budget of 3: the third step is the escaping one *)
C15_Witness ==
    /\ Evaluated
    /\ probe.x4 = 8
    /\ probe.y4 = 8
    /\ probe.maxIterations = 3
    /\ probe.result.steps = 3

(* C16: a sample that passes the cardioid test or the period-2 test is
   interior without one iteration step, whatever the budget, and its pixel is
   pure black; the origin is such a sample. *)
C16_ShortcutsSkipTheLoop ==
    Evaluated =>
        LET q16 == (probe.x4 - 1) * (probe.x4 - 1) + probe.y4 * probe.y4
            cardioid == q16 * (q16 + 4 * (probe.x4 - 1)) <= 4 * probe.y4 * probe.y4
            bulb == (probe.x4 + 4) * (probe.x4 + 4) + probe.y4 * probe.y4 <= 1
        IN  /\ (cardioid \/ bulb) =>
                  /\ probe.result.steps = 0
                  /\ ~probe.result.colored
                  /\ probe.pixel = <<0, 0, 0, 255>>
            /\ (probe.x4 = 0 /\ probe.y4 = 0) =>
                  /\ ~probe.result.colored
                  /\ probe.pixel = <<0, 0, 0, 255>>

(* a point of the period-2 disc that is not in the cardioid, skipped *)
C16_Witness ==
    /\ Evaluated
    /\ probe.x4 = -4
    /\ probe.y4 = 0
    /\ probe.result.skipped
    /\ probe.result.steps = 0
    /\ probe.maxIterations > 1

----------------------------------------------------------------------------
(* The palettes (specification SpecColor) *)

ColorSteps == 100       \* the ramp is probed at ColorSteps + 1 even steps

(* every palette id, and one id that takes the default branch *)
PaletteIds == 0 .. 5

(* the even steps, a step below 0 and one above 1, and the inputs just below
   the end of each third and of the whole ramp *)
ColorInputs ==
    { k * (ColorUnit \div ColorSteps) : k \in -1 .. ColorSteps + 1 }
        \cup { (n * ColorUnit) \div 3 - d : n \in 1 .. 3, d \in 0 .. 3 }

InitColor ==
    /\ InitApp
    /\ gl = "linked"
    /\ numWorkers = 1
    /\ canvasHeight = 1
    /\ \E t \in ColorInputs, scheme \in PaletteIds :
           probe = [kind |-> "color", t |-> t, colorScheme |-> scheme,
                    done |-> FALSE]

ComputeColor ==
    /\ probe.kind = "color"
    /\ ~probe.done
    /\ probe' = [kind |-> "color", t |-> probe.t,
                 colorScheme |-> probe.colorScheme,
                 done |-> TRUE,
                 rgb |-> GetColor(probe.t, probe.colorScheme)]
    /\ UNCHANGED <<envVars, viewVars, mouseVars, renderVars, initTimer, inputs>>

SpecColor == InitColor /\ [][ComputeColor]_vars

(* C17: for every palette and every input, each channel getColor returns is
   an integer from 0 to 255. *)
C17_ChannelsAreBytes ==
    (probe.kind = "color" /\ probe.done) =>
        \A k \in 1 .. 3 : probe.rgb[k] \in 0 .. 255

----------------------------------------------------------------------------
(* The zoom and who changes it *)

(* the zoom is 0.5 times a product of factors 1.1 and 0.9: a positive number *)
Positive(z) == z.in >= 0 /\ z.out >= 0 /\ z.mul = 1

WheelShaped == \E direction \in WheelDirections : zoom' = ZoomBy(zoom, direction)

ResetShaped == zoom' = InitialZoom /\ centerX' = NoTerms /\ centerY' = NoTerms

(* C18: the zoom is positive in every reachable state; a step that changes
   the zoom is a wheel step or a reset, and a step that changes the centre is
   a wheel step, a reset or a move of a drag, which leaves the zoom alone. *)
C18_ZoomStaysPositive ==
    [][ /\ Positive(zoom)
        /\ Positive(zoom')
        /\ zoom' # zoom => (WheelShaped \/ ResetShaped)
        /\ (centerX' # centerX \/ centerY' # centerY) =>
              \/ WheelShaped
              \/ ResetShaped
              \/ isDragging /\ zoom' = zoom /\ inputs' = inputs + 1 ]_vars

(* two wheel steps away from the set: the smallest zoom of the run, and a
   centre that the steps have moved *)
C18_Witness ==
    /\ zoom.out >= 2
    /\ centerX # NoTerms
    /\ ~isDragging

----------------------------------------------------------------------------
(* The progress reported during a frame *)

(* how many of its messages the worker of band j has delivered, given what
   it has still to deliver *)
Delivered(fr, ws, j) == Len(WorkerMessages(fr.params[j])) - Len(ws[j])

(* the fraction <<num, den>> band j reported last, <<0, 1>> before its first
   progress message *)
LatestFraction(fr, ws, j) ==
    LET all == WorkerMessages(fr.params[j])
        sent == { k \in 1 .. Delivered(fr, ws, j) : all[k].type = "progress" }
    IN  IF sent = {}
        THEN <<0, 1>>
        ELSE LET last == CHOOSE k \in sent : \A other \in sent : other <= k
             IN  <<all[last].num, all[last].den>>

(* the sum of the fractions of the bands from the k-th on, as <<num, den>> *)
RECURSIVE FractionSum(_, _, _)
FractionSum(fr, ws, k) ==
    IF k > Len(fr.bands)
    THEN <<0, 1>>
    ELSE LET f == LatestFraction(fr, ws, fr.bands[k].index)
             rest == FractionSum(fr, ws, k + 1)
         IN  <<f[1] * rest[2] + rest[1] * f[2], f[2] * rest[2]>>

(* the sum of the latest fractions over the number of bands, in percent *)
AggregatePercent(fr, ws) ==
    LET sum == FractionSum(fr, ws, 1)
    IN  (100 * sum[1]) \div (sum[2] * Len(fr.bands))

(* no band of the frame has failed *)
AllBandsAlive(fr, ws) ==
    \A j \in DOMAIN fr.resolved : ws[j] # << >> \/ fr.resolved[j] # << >>

(* the step delivers a progress message *)
ProgressStep ==
    /\ frame.active
    /\ \E i \in DOMAIN frame.resolved :
          /\ workers[i] # << >>
          /\ Head(workers[i]).type = "progress"
          /\ workers'[i] = Tail(workers[i])

(* C19: every progress value reported during a frame lies in [0, 1] and is
   the sum of the latest fractions of the bands over the number of bands,
   whichever band reported last; it never decreases within a frame. *)
C19_ProgressIsAggregate ==
    [][ (ProgressStep /\ AllBandsAlive(frame, workers)) =>
            /\ loading'.percent \in 0 .. 100
            /\ loading'.percent = AggregatePercent(frame, workers')
            /\ (\E j \in DOMAIN frame.resolved : Delivered(frame, workers, j) >= 1) =>
                  loading'.percent >= loading.percent ]_vars

----------------------------------------------------------------------------
(* Touch navigation (specification SpecTouch): the touch handlers, each
   event recorded with its touches, those of the event before it and the
   state it found *)

(* e.touches: one finger, or two fingers at any two positions *)
TouchLists ==
    { <<pos>> : pos \in MousePositions }
        \cup { <<first, second>> : first \in MousePositions, second \in MousePositions }

TouchRecord(event, touches) ==
    [kind |-> "touch", event |-> event, touches |-> touches,
     previous |-> IF probe.kind = "touch" THEN probe.touches ELSE << >>,
     before |-> View, dragging |-> isDragging,
     lastX |-> lastMouseX, lastY |-> lastMouseY]

HandleTouchStart(touches) ==
    /\ UserEvent
    /\ probe' = TouchRecord("start", touches)
    /\ IF Len(touches) = 1
       THEN /\ isDragging' = TRUE
            /\ lastMouseX' = touches[1][1]
            /\ lastMouseY' = touches[1][2]
       ELSE UNCHANGED mouseVars
    /\ UNCHANGED <<viewVars, renderVars>>

HandleTouchMove(touches) ==
    /\ UserEvent
    /\ probe' = TouchRecord("move", touches)
    /\ IF Len(touches) = 1 /\ isDragging
       THEN /\ LET deltaX == touches[1][1] - lastMouseX
                   deltaY == touches[1][2] - lastMouseY
                   v == [View EXCEPT
                           !.centerX = AddTerm(@, TermKey(zoom, canvasWidth), -2 * deltaX),
                           !.centerY = AddTerm(@, TermKey(zoom, canvasHeight), 2 * deltaY)]
               IN  SetView(v) /\ Render(v)
            /\ lastMouseX' = touches[1][1]
            /\ lastMouseY' = touches[1][2]
            /\ UNCHANGED isDragging
       ELSE UNCHANGED <<viewVars, mouseVars, renderVars>>

HandleTouchEnd ==
    /\ UserEvent
    /\ probe' = TouchRecord("end", << >>)
    /\ isDragging' = FALSE
    /\ UNCHANGED <<lastMouseX, lastMouseY, viewVars, renderVars>>

TouchTimer == TimerRender

TouchMessage(i) == OnMessage(i)

NextTouch ==
    \/ TouchTimer
    \/ \E touches \in TouchLists : HandleTouchStart(touches)
    \/ \E touches \in TouchLists : HandleTouchMove(touches)
    \/ HandleTouchEnd
    \/ \E i \in DOMAIN workers : TouchMessage(i)

InitTouch == InitApp /\ gl # "null" /\ probe = NoProbe

SpecTouch == InitTouch /\ [][NextTouch]_vars

(* the square of the distance of two touches *)
Distance2(touches) ==
    (touches[1][1] - touches[2][1]) * (touches[1][1] - touches[2][1])
        + (touches[1][2] - touches[2][2]) * (touches[1][2] - touches[2][2])

(* C20: a move of one finger during a drag pans the view by the pixel delta
   over zoom * dimension / 4 and leaves the zoom alone; a move of two fingers
   whose distance has changed since the event before leaves the view with
   another zoom. *)
C20_TouchPansAndPinches ==
    (probe.kind = "touch" /\ probe.event = "move") =>
        /\ (Len(probe.touches) = 1 /\ probe.dragging) =>
              /\ zoom = probe.before.zoom
              /\ centerX = AddTerm(probe.before.centerX,
                                   TermKey(probe.before.zoom, canvasWidth),
                                   -2 * (probe.touches[1][1] - probe.lastX))
              /\ centerY = AddTerm(probe.before.centerY,
                                   TermKey(probe.before.zoom, canvasHeight),
                                   2 * (probe.touches[1][2] - probe.lastY))
        /\ (/\ Len(probe.touches) = 2
            /\ Len(probe.previous) = 2
            /\ Distance2(probe.touches) # Distance2(probe.previous)) =>
              zoom # probe.before.zoom

----------------------------------------------------------------------------
(* The frame engine when every worker delivers what it has to post: the
   timer of init() fires, and each message a worker has posted is handled by
   the main thread; no worker fails *)

LiveTimer == TimerRender

LiveMessage(i) == OnMessage(i)

NextLive ==
    \/ LiveTimer
    \/ \E size \in ResizeSizes : Resize(size)
    \/ \E pos \in MousePositions : HandleMouseDown(pos)
    \/ \E pos \in MousePositions : HandleMouseMove(pos)
    \/ HandleMouseUp
    \/ \E direction \in WheelDirections, pos \in MousePositions :
           HandleWheel(direction, pos)
    \/ \E scheme \in Palettes : SetColorScheme(scheme)
    \/ ToggleSmoothing
    \/ ToggleAntialiasing
    \/ Reset
    \/ \E i \in DOMAIN workers : LiveMessage(i)

InitLive == InitApp /\ probe = NoProbe

(* the event loop runs every task that is ready: the timer of setTimeout and
   the message events of each worker *)
Fairness ==
    /\ WF_vars(LiveTimer)
    /\ \A i \in 0 .. MaxCores - 1 : WF_vars(LiveMessage(i))

SpecLive == InitLive /\ [][NextLive]_vars /\ Fairness

(* the centre or the zoom is no longer the one the frame was dispatched for *)
ViewMoved(fr) ==
    \E i \in DOMAIN fr.params :
        \/ fr.params[i].centerX # centerX
        \/ fr.params[i].centerY # centerY
        \/ fr.params[i].zoom # [zoom EXCEPT !.mul = @ * WorkerZoomScale]

(* a frame of the scalar path is in flight and a pan, a wheel step or a reset
   has moved the viewport since its dispatch *)
MovedInFlight ==
    /\ ~ShouldUseGPU(useWebGL, zoom)
    /\ HasContext2D
    /\ frame.active
    /\ ViewMoved(frame)

(* the canvas shows a frame of the scalar path whose bands were computed for
   the centre and the zoom of the viewport *)
ShowsLatestView ==
    /\ CpuDrawn
    /\ \A i \in DOMAIN canvas.params :
          /\ canvas.params[i].centerX = centerX
          /\ canvas.params[i].centerY = centerY
          /\ canvas.params[i].zoom = [zoom EXCEPT !.mul = @ * WorkerZoomScale]

(* C21: on the scalar path, when a pan, a wheel step or a reset has moved the
   viewport while a frame is in flight and no further input arrives, and
   every worker delivers its result, the canvas eventually shows a frame
   computed for the latest viewport. *)
C21_LatestViewEventuallyDrawn ==
    \A k \in 0 .. MaxInputs :
        (MovedInFlight /\ inputs = k) ~> (ShowsLatestView \/ inputs # k)

----------------------------------------------------------------------------
(* The iteration count on display *)

(* the budget handed to the backend that produced what the canvas shows: the
   uniform u_iterations of the draw call, or the maxIterations of the
   requests posted to the workers *)
BudgetsOf(c) ==
    IF c.backend = "gpu" THEN {c.iterations}
    ELSE IF c.backend = "cpu"
         THEN { c.params[i].maxIterations : i \in DOMAIN c.params }
         ELSE {}

(* Devices of every performance tier: hardwareConcurrency 1, 4, 6 and 8 with
   each deviceMemory give the ceilings 1000, 2000, 4000 and 8000 *)
TierCores == { OrFour(cores) : cores \in ProbeCores }

InitDisplay ==
    /\ \E context \in {"none", "linked"}, cores \in TierCores,
          memory \in DeviceMemory, size \in CanvasSizes :
           Constructed(context, cores, memory, size)
    /\ probe = NoProbe

DisplayTimer == TimerRender

DisplayMessage(i) == OnMessage(i)

NextDisplay ==
    \/ DisplayTimer
    \/ \E direction \in WheelDirections, pos \in MousePositions :
           HandleWheel(direction, pos)
    \/ Reset
    \/ \E i \in DOMAIN workers : DisplayMessage(i)

SpecDisplay == InitDisplay /\ [][NextDisplay]_vars

(* a render has completed: the canvas has been drawn and updateUI has run *)
RenderCompleted == canvas' # canvas

(* C22: after every completed render, the iteration count that updateUI
   displays is the iteration budget that was passed to the backend that
   produced the frame, on the accelerated path and on the worker path. *)
C22_DisplayedBudgetIsUsedBudget ==
    [][ RenderCompleted => \A budget \in BudgetsOf(canvas') : ui'.iterations = budget ]_vars

====
